---- MODULE Spec2Model ----
(***************************************************************************)
(* A model of db/range_del_aggregator.cc: the two range tombstone maps     *)
(* (UncollapsedRangeDelMap, CollapsedRangeDelMap) and the RangeDelAggregator*)
(* that routes tombstones to per-snapshot stripes.                         *)
(*                                                                         *)
(* User keys are the integers 0..MaxKey under the user comparator's total  *)
(* order; sequence numbers are naturals.  A std::map<Slice,SequenceNumber> *)
(* is a function from a finite set of keys; a std::map iterator is the key *)
(* of the node it points to, or END for rep_.end().                        *)
(***************************************************************************)
EXTENDS Integers, Sequences, FiniteSets, TLC

\* ------------------------------------------------------------------ bounds
MaxKey == 3
MaxTombSeq == 2
MaxAdds == 3

Keys == 0 .. MaxKey
TombSeqs == 1 .. MaxTombSeq
QuerySeqs == 0 .. MaxTombSeq

\* rep_.end(): greater than every key, so "it != end && it->first < k" is "it < k".
END == MaxKey + 1

\* RangeTombstone(start_key_, end_key_, seq_), start_key_ <= end_key_.
RangeTombstone(a, b, s) == [start_key_ |-> a, end_key_ |-> b, seq_ |-> s]

Tombstones ==
  {RangeTombstone(a, b, s) : a \in Keys, b \in Keys, s \in TombSeqs} \cap
  {t \in [start_key_ : Keys, end_key_ : Keys, seq_ : TombSeqs] :
     t.start_key_ <= t.end_key_}

Min(S) == CHOOSE x \in S : \A y \in S : x <= y
Max(S) == CHOOSE x \in S : \A y \in S : y <= x

\* ------------------------------------------------- UncollapsedRangeDelMap
\* rep_ is a std::multiset ordered by start key: a sequence sorted by
\* start_key_, equal start keys in insertion order.

\* rep_.emplace(tombstone): inserted at the upper bound of its equal range.
UncollapsedAddTombstone(rep, t) ==
  LET n == Cardinality({i \in 1 .. Len(rep) :
                          rep[i].start_key_ <= t.start_key_})
  IN SubSeq(rep, 1, n) \o <<t>> \o SubSeq(rep, n + 1, Len(rep))

\* Mutant: the scan also stops at a tombstone starting at the key.
UncollapsedBreak_AtStart(user_key, tombstone) ==
  user_key <= tombstone.start_key_

\* The early exit of the scan: the tombstone starts after the key.
UncollapsedBreak(user_key, tombstone) == user_key < tombstone.start_key_

RECURSIVE UncollapsedScan(_, _, _, _)
UncollapsedScan(rep, i, user_key, sequence) ==
  IF i > Len(rep) THEN FALSE
  ELSE IF UncollapsedBreak(user_key, rep[i]) THEN FALSE
  ELSE IF sequence < rep[i].seq_ /\ user_key < rep[i].end_key_ THEN TRUE
  ELSE UncollapsedScan(rep, i + 1, user_key, sequence)

\* UncollapsedRangeDelMap::ShouldDelete (mode kFullScan).
UncollapsedShouldDelete(rep, user_key, sequence) ==
  UncollapsedScan(rep, 1, user_key, sequence)

\* --------------------------------------------------- CollapsedRangeDelMap
EmptyRep == [x \in {} |-> 0]

upper_bound(rep, k) == Min({x \in DOMAIN rep : x > k} \cup {END})
begin(rep) == Min(DOMAIN rep \cup {END})
next(rep, it) == upper_bound(rep, it)
prev(rep, it) == Max({x \in DOMAIN rep : x < it})

\* rep_[k] = v: inserts or overwrites.
MapSet(rep, k, v) == [x \in DOMAIN rep \cup {k} |-> IF x = k THEN v ELSE rep[x]]
\* rep_.emplace(k, v): a no-op when k is present.
emplace(rep, k, v) == IF k \in DOMAIN rep THEN rep ELSE MapSet(rep, k, v)
\* rep_.erase(it)
erase(rep, k) == [x \in DOMAIN rep \ {k} |-> rep[x]]

\* The lambda prev_seq of AddTombstone.
prev_seq(rep, it) == IF it = begin(rep) THEN 0 ELSE rep[prev(rep, it)]

\* The test "t.seq_ > it->second" of the loop over the overlapped transitions.
CoversTransition(t, seq) == t.seq_ > seq

\* The while loop of AddTombstone; yields the map, the iterator and end_seq.
RECURSIVE AddTombstoneLoop(_, _, _, _)
AddTombstoneLoop(rep, it, end_seq, t) ==
  IF it # END /\ it < t.end_key_
  THEN IF CoversTransition(t, rep[it])
       THEN IF t.seq_ = prev_seq(rep, it)
            THEN AddTombstoneLoop(erase(rep, it), next(rep, it), rep[it], t)
            ELSE AddTombstoneLoop(MapSet(rep, it, t.seq_), next(rep, it),
                                  rep[it], t)
       ELSE AddTombstoneLoop(rep, next(rep, it), end_seq, t)
  ELSE [rep |-> rep, it |-> it, end_seq |-> end_seq]

\* CollapsedRangeDelMap::AddTombstone
CollapsedAddTombstone(rep, t) ==
  LET it == upper_bound(rep, t.start_key_)
      above == t.seq_ > prev_seq(rep, it)
      rep1 == IF above THEN MapSet(rep, t.start_key_, t.seq_) ELSE rep
      end_seq == IF above THEN prev_seq(rep, it) ELSE 0
      w == AddTombstoneLoop(rep1, it, end_seq, t)
  IN IF t.seq_ = prev_seq(w.rep, w.it)
     THEN emplace(w.rep, t.end_key_, w.end_seq)
     ELSE w.rep

\* CollapsedRangeDelMap::Size: size_t arithmetic, rep_.size() - 1 wraps on an
\* empty map.  SizeBits stands for the width of size_t.
SizeBits == 30
CollapsedSize(rep) == (Cardinality(DOMAIN rep) - 1) % (2 ^ SizeBits)

\* The positioning modes a collapsed map implements.
CollapsedModes == {"kForwardTraversal", "kBackwardTraversal", "kBinarySearch"}

\* Mutant: the forward loop stops before an entry at the queried key.
ForwardWalk_Strict(rep, it, user_key) ==
  LET RECURSIVE W(_)
      W(x) == IF next(rep, x) # END /\ next(rep, x) < user_key
              THEN W(next(rep, x))
              ELSE x
  IN W(it)

\* kForwardTraversal: the while loop advancing iter_.
RECURSIVE ForwardWalk(_, _, _)
ForwardWalk(rep, it, user_key) ==
  IF next(rep, it) # END /\ next(rep, it) <= user_key
  THEN ForwardWalk(rep, next(rep, it), user_key)
  ELSE it

\* kBackwardTraversal: the while loop retreating iter_.
RECURSIVE BackwardWalk(_, _, _)
BackwardWalk(rep, it, user_key) ==
  IF it # begin(rep) /\ user_key < it
  THEN BackwardWalk(rep, prev(rep, it), user_key)
  ELSE it

\* An invalid cursor upgrades a traversal mode to kBinarySearch.
EffectiveMode(rep, iter, mode) ==
  IF iter = END /\ mode \in {"kForwardTraversal", "kBackwardTraversal"}
  THEN "kBinarySearch"
  ELSE mode

\* The value returned once the cursor is placed, with the two closing asserts.
Positioned(rep, it, user_key, sequence) ==
  [ret |-> sequence < rep[it],
   iter |-> it,
   asserts |-> /\ it # END /\ it <= user_key
               /\ (next(rep, it) = END \/ user_key < next(rep, it))]

EarlyFalse(it) == [ret |-> FALSE, iter |-> it, asserts |-> TRUE]

\* CollapsedRangeDelMap::ShouldDelete: the verdict, the cursor it leaves and
\* whether its closing assertions held.
CollapsedShouldDelete(rep, iter, user_key, sequence, mode) ==
  LET m == EffectiveMode(rep, iter, mode) IN
  CASE m = "kForwardTraversal" ->
         IF iter = begin(rep) /\ user_key < iter
         THEN EarlyFalse(iter)
         ELSE Positioned(rep, ForwardWalk(rep, iter, user_key),
                         user_key, sequence)
    [] m = "kBackwardTraversal" ->
         LET it == BackwardWalk(rep, iter, user_key) IN
         IF it = begin(rep) /\ user_key < it
         THEN EarlyFalse(it)
         ELSE Positioned(rep, it, user_key, sequence)
    [] m = "kBinarySearch" ->
         LET it == upper_bound(rep, user_key) IN
         IF it = begin(rep)
         THEN EarlyFalse(it)
         ELSE Positioned(rep, prev(rep, it), user_key, sequence)

\* ShouldDelete in kBinarySearch mode, the verdict alone.
BinarySearchDeleted(rep, user_key, sequence) ==
  CollapsedShouldDelete(rep, END, user_key, sequence, "kBinarySearch").ret

\* Every mode of RangeDelPositioningMode.
AllModes == CollapsedModes \cup {"kFullScan"}

\* case kFullScan of CollapsedRangeDelMap::ShouldDelete: assert(false), and no
\* break after it.  A build with assertions aborts there.  A build with
\* NDEBUG runs on into case kForwardTraversal, whose assert(iter_ !=
\* rep_.end()) is compiled out as well: with a valid cursor the forward logic
\* runs; with an invalidated cursor the forward logic dereferences or
\* advances rep_.end(), which is undefined, so any outcome is possible.
\* Yields the set of possible outcomes.
FullScanOutcomes(rep, iter, user_key, sequence, ndebug) ==
  IF ~ndebug
  THEN {[ret |-> FALSE, iter |-> iter, asserts |-> FALSE, aborted |-> TRUE]}
  ELSE IF iter = END
  THEN {[ret |-> r, iter |-> i, asserts |-> FALSE, aborted |-> a] :
          r \in BOOLEAN, i \in DOMAIN rep \cup {END}, a \in BOOLEAN}
  ELSE LET o == CollapsedShouldDelete(rep, iter, user_key, sequence,
                                      "kForwardTraversal")
       IN {[ret |-> o.ret, iter |-> o.iter, asserts |-> o.asserts,
            aborted |-> FALSE]}

\* The possible outcomes of a ShouldDelete call in any mode, for a build with
\* (ndebug) or without NDEBUG; a build without it aborts on a failed assert.
ShouldDeleteOutcomes(rep, iter, user_key, sequence, mode, ndebug) ==
  IF mode = "kFullScan"
  THEN FullScanOutcomes(rep, iter, user_key, sequence, ndebug)
  ELSE LET o == CollapsedShouldDelete(rep, iter, user_key, sequence, mode)
       IN {[ret |-> o.ret, iter |-> o.iter, asserts |-> o.asserts,
            aborted |-> ~ndebug /\ ~o.asserts]}

\* CollapsedRangeDelMap::Iterator
IteratorValid(rep, it) == it # END /\ next(rep, it) # END

RECURSIVE SeekPastSentinels(_, _)
SeekPastSentinels(rep, it) ==
  IF IteratorValid(rep, it) /\ rep[it] = 0
  THEN SeekPastSentinels(rep, next(rep, it))
  ELSE it

\* Mutant: Next() without SeekPastSentinels().
IteratorNext_NoSkip(rep, it) == next(rep, it)

IteratorNext(rep, it) == SeekPastSentinels(rep, next(rep, it))

IteratorTombstone(rep, it) == RangeTombstone(it, next(rep, it), rep[it])

\* for (it = NewIterator(); it->Valid(); it->Next()) collect it->Tombstone()
RECURSIVE IterateFrom(_, _)
IterateFrom(rep, it) ==
  IF IteratorValid(rep, it)
  THEN <<IteratorTombstone(rep, it)>> \o IterateFrom(rep, IteratorNext(rep, it))
  ELSE <<>>

CollapsedIterate(rep) == IterateFrom(rep, begin(rep))

\* ------------------------------------------------------ RangeDelAggregator
\* kMaxSequenceNumber: the all-ones sequence number, above every snapshot and
\* every tombstone of the model.
kMaxSequenceNumber == 7
MaxSnapshot == 2
MaxSrcLen == 2
MaxCalls == 2
MaxAggAdds == 2

Snapshots == 1 .. MaxSnapshot
AggQuerySeqs == (0 .. MaxTombSeq) \cup {kMaxSequenceNumber}

\* rep_ == nullptr
NULL == [allocated |-> FALSE]

\* stripe_map_.end()
StripeEnd == kMaxSequenceNumber + 1

\* NewRangeDelMap(): an empty map of the configured kind, cursor invalid.
NewRangeDelMap(collapse) ==
  [rep |-> IF collapse THEN EmptyRep ELSE <<>>, iter_ |-> END]

\* InitRep(snapshots): one stripe per snapshot and the catch-all stripe.
InitRep(snapshots, collapse) ==
  [allocated |-> TRUE,
   stripe_map_ |-> [u \in snapshots \cup {kMaxSequenceNumber} |->
                      NewRangeDelMap(collapse)],
   pinned_iters_ |-> {}]

\* stripe_map_.upper_bound(x): the first stripe whose key is greater than x.
StripeUpperBound(stripes, x) ==
  Min({u \in DOMAIN stripes : u > x} \cup {StripeEnd})

\* Mutant: upper_bound(seq) without the subtraction of one.
GetRangeDelMap_NoMinusOne(stripes, seq) ==
  IF seq > 0 THEN StripeUpperBound(stripes, seq)
  ELSE Min(DOMAIN stripes \cup {StripeEnd})

\* GetRangeDelMap(seq): the key of the stripe it returns.
GetRangeDelMap(stripes, seq) ==
  IF seq > 0 THEN StripeUpperBound(stripes, seq - 1)
  ELSE Min(DOMAIN stripes \cup {StripeEnd})

\* RangeDelMap::Size and RangeDelMap::IsEmpty of either kind of map.
MapSize(collapse, m) ==
  IF collapse THEN CollapsedSize(m.rep) ELSE Len(m.rep)
MapIsEmpty(collapse, m) == MapSize(collapse, m) = 0

\* RangeDelMap::AddTombstone of either kind of map.
MapAdd(collapse, m, t) ==
  [m EXCEPT !.rep = IF collapse THEN CollapsedAddTombstone(m.rep, t)
                    ELSE UncollapsedAddTombstone(m.rep, t)]

\* InvalidateRangeDelMapPositions(): every stripe's cursor to end-of-map.
InvalidatePositions(r) ==
  IF ~r.allocated THEN r
  ELSE [r EXCEPT !.stripe_map_ =
          [u \in DOMAIN r.stripe_map_ |->
             [r.stripe_map_[u] EXCEPT !.iter_ = END]]]

\* Mutant: an allocated rep_ is left as it is, cursors included.
FirstIter_NoInvalidate(r, ub, collapse) ==
  IF ~r.allocated THEN InitRep({ub}, collapse) ELSE r

\* What AddTombstones does to rep_ before the first entry is parsed.
FirstIter(r, ub, collapse) ==
  IF ~r.allocated THEN InitRep({ub}, collapse)
  ELSE InvalidatePositions(r)

\* The stripe AddTombstones adds a tombstone to.
RouteTombstone(stripes, t) == GetRangeDelMap(stripes, t.seq_)

\* The entries an input iterator yields: a parsable range tombstone or a key
\* ParseInternalKey rejects.
Corrupt == [parsed |-> FALSE, tombstone |-> RangeTombstone(0, 0, 1)]
Entries == {[parsed |-> TRUE, tombstone |-> t] : t \in Tombstones} \cup {Corrupt}
Inputs == UNION {[1 .. n -> Entries] : n \in 0 .. MaxSrcLen}

\* The while loop of AddTombstones from entry i on.
RECURSIVE AddTombstonesLoop(_, _, _, _)
AddTombstonesLoop(r, collapse, input, i) ==
  IF i > Len(input) THEN [rep_ |-> r, status |-> "OK", count |-> i - 1]
  ELSE IF ~input[i].parsed
       THEN [rep_ |-> r, status |-> "Corruption", count |-> i - 1]
  ELSE LET t == input[i].tombstone
           u == RouteTombstone(r.stripe_map_, t)
       IN AddTombstonesLoop(
            [r EXCEPT !.stripe_map_[u] = MapAdd(collapse, @, t)],
            collapse, input, i + 1)

\* Whether AddTombstones hands the input iterator to pinned_iters_mgr_: only
\* at the end of the function, when the loop ran at least once.
PinsInput(input, status) == Len(input) > 0 /\ status = "OK"

\* Mutant: rep_ is prepared before the loop, whether or not the input yields
\* an entry.
AddTombstonesBody_EagerInit(r, ub, collapse, input, id) ==
  LET w == AddTombstonesLoop(FirstIter(r, ub, collapse), collapse, input, 1)
  IN IF PinsInput(input, w.status)
     THEN [w EXCEPT !.rep_.pinned_iters_ = @ \cup {id}]
     ELSE w

\* RangeDelAggregator::AddTombstones(input), input not null, from source id:
\* the new rep_, the status returned, the number of tombstones added.
AddTombstonesBody(r, ub, collapse, input, id) ==
  IF Len(input) = 0 THEN [rep_ |-> r, status |-> "OK", count |-> 0]
  ELSE LET w == AddTombstonesLoop(FirstIter(r, ub, collapse),
                                  collapse, input, 1)
       IN IF PinsInput(input, w.status)
          THEN [w EXCEPT !.rep_.pinned_iters_ = @ \cup {id}]
          ELSE w

\* Mutant: the newest stripe is consulted whatever the key's seq.
QueryStripe_Newest(stripes, parsed_sequence) == Max(DOMAIN stripes)

\* The stripe ShouldDeleteImpl consults for a parsed key.
QueryStripe(stripes, parsed_sequence) == GetRangeDelMap(stripes, parsed_sequence)

\* RangeDelAggregator::ShouldDeleteImpl(parsed, mode): the verdict and rep_
\* with the moved cursor.
AggShouldDelete(r, collapse, user_key, sequence, mode) ==
  LET u == QueryStripe(r.stripe_map_, sequence)
      m == r.stripe_map_[u]
  IN IF MapIsEmpty(collapse, m) THEN [ret |-> FALSE, rep_ |-> r]
     ELSE IF collapse
     THEN LET q == CollapsedShouldDelete(m.rep, m.iter_, user_key,
                                         sequence, mode)
          IN [ret |-> q.ret,
              rep_ |-> [r EXCEPT !.stripe_map_[u].iter_ = q.iter]]
     ELSE [ret |-> UncollapsedShouldDelete(m.rep, user_key, sequence),
           rep_ |-> r]

\* The modes ShouldDelete accepts for the configured kind of map.
ModesOf(collapse) == IF collapse THEN CollapsedModes ELSE {"kFullScan"}

\* RangeDelAggregator::IsEmpty
AggIsEmpty(r, collapse) ==
  IF ~r.allocated THEN TRUE
  ELSE \A u \in DOMAIN r.stripe_map_ : MapIsEmpty(collapse, r.stripe_map_[u])

\* The stripes ShouldAddTombstones and AddToBuilder visit: all of them, from
\* the second on when bottommost_level is set.
RetainedStripes(stripes, bottommost_level) ==
  IF bottommost_level THEN DOMAIN stripes \ {Min(DOMAIN stripes)}
  ELSE DOMAIN stripes

\* RangeDelAggregator::ShouldAddTombstones(bottommost_level)
ShouldAddTombstones(r, collapse, bottommost_level) ==
  IF ~r.allocated THEN FALSE
  ELSE \E u \in RetainedStripes(r.stripe_map_, bottommost_level) :
         ~MapIsEmpty(collapse, r.stripe_map_[u])

\* Mutant: the tombstone must start before the end of the queried range.
TombstoneOverlaps_StartExclusive(tombstone, start, end) ==
  /\ start < tombstone.end_key_
  /\ tombstone.start_key_ < end
  /\ tombstone.start_key_ < tombstone.end_key_

\* The test of UncollapsedRangeDelMap::IsRangeOverlapped on one tombstone.
TombstoneOverlaps(tombstone, start, end) ==
  /\ start < tombstone.end_key_
  /\ tombstone.start_key_ <= end
  /\ tombstone.start_key_ < tombstone.end_key_

\* UncollapsedRangeDelMap::IsRangeOverlapped(start, end)
UncollapsedIsRangeOverlapped(rep, start, end) ==
  \E i \in 1 .. Len(rep) : TombstoneOverlaps(rep[i], start, end)

\* RangeDelAggregator::IsRangeOverlapped(start, end) on uncollapsed stripes
\* (the collapsed map's method aborts).
AggIsRangeOverlapped(r, start, end) ==
  IF ~r.allocated THEN FALSE
  ELSE \E u \in DOMAIN r.stripe_map_ :
         UncollapsedIsRangeOverlapped(r.stripe_map_[u].rep, start, end)

\* Mutant: Seek without the step back to the entry at or before the target.
IteratorSeek_NoStepBack(rep, target) ==
  SeekPastSentinels(rep, upper_bound(rep, target))

\* CollapsedRangeDelMap::Iterator::Seek(target): the position it leaves.
IteratorSeek(rep, target) ==
  LET it == upper_bound(rep, target) IN
  SeekPastSentinels(rep, IF it # begin(rep) THEN prev(rep, it) ELSE it)

\* ------------------------------------------------------------ AddToBuilder
\* A null lower_bound or upper_bound pointer.
nullptr == 0 - 1
Bounds == Keys \cup {nullptr}

\* InternalKey(user_key, sequence, type); an InternalKey of size() 0.
InternalKey(user_key, sequence, type) ==
  [user_key |-> user_key, sequence |-> sequence, type |-> type]
EmptyKey == InternalKey(nullptr, 0, "none")

\* icmp_.Compare(a, b) < 0 on keys of one type: user key ascending, then
\* sequence number descending.
InternalKeyLess(a, b) ==
  \/ a.user_key < b.user_key
  \/ a.user_key = b.user_key /\ a.sequence > b.sequence

\* RangeTombstone::Serialize and RangeTombstone::SerializeEndKey
Serialize(t) ==
  [key |-> InternalKey(t.start_key_, t.seq_, "kTypeRangeDeletion"),
   value |-> t.end_key_]
SerializeEndKey(t) ==
  InternalKey(t.end_key_, kMaxSequenceNumber, "kTypeRangeDeletion")

\* A FileMetaData as its constructor leaves it, an empty TableBuilder and
\* zeroed CompactionIterationStats.
FreshMeta ==
  [smallest |-> EmptyKey, largest |-> EmptyKey,
   smallest_seqno |-> kMaxSequenceNumber, largest_seqno |-> 0]
FreshOut == [builder |-> <<>>, meta |-> FreshMeta, stats |-> 0]

\* What a stripe's NewIterator() yields from Valid() to the end.
StripeTombstones(collapse, m) ==
  IF collapse THEN CollapsedIterate(m.rep) ELSE m.rep

\* Mutant: only a tombstone starting after upper_bound ends the loop.
StartsAtOrAfter_Strict(t, upper_bound_key) ==
  upper_bound_key # nullptr /\ upper_bound_key < t.start_key_

\* The "break" of the tombstone loop: the tombstone starts at upper_bound or
\* later.
StartsAtOrAfter(t, upper_bound_key) ==
  upper_bound_key # nullptr /\ upper_bound_key <= t.start_key_

\* The "continue" of the tombstone loop: the tombstone ends at or before
\* lower_bound.
EndsAtOrBefore(t, lower_bound) ==
  lower_bound # nullptr /\ t.end_key_ <= lower_bound

\* Mutant: the replacement smallest key keeps the tombstone's seq.
UpdateSmallest_KeepSeq(meta, t, lower_bound) ==
  LET first == Serialize(t).key
      smallest_candidate ==
        IF lower_bound # nullptr /\ first.user_key <= lower_bound
        THEN InternalKey(lower_bound, t.seq_, "kTypeRangeDeletion")
        ELSE first
  IN IF meta.smallest = EmptyKey \/
        InternalKeyLess(smallest_candidate, meta.smallest)
     THEN [meta EXCEPT !.smallest = smallest_candidate]
     ELSE meta

\* meta->smallest after the first tombstone added from a stripe.
UpdateSmallest(meta, t, lower_bound) ==
  LET first == Serialize(t).key
      smallest_candidate ==
        IF lower_bound # nullptr /\ first.user_key <= lower_bound
        THEN InternalKey(lower_bound, 0, "kTypeRangeDeletion")
        ELSE first
  IN IF meta.smallest = EmptyKey \/
        InternalKeyLess(smallest_candidate, meta.smallest)
     THEN [meta EXCEPT !.smallest = smallest_candidate]
     ELSE meta

\* meta->largest and the seqno range after a tombstone is added.
UpdateLargest(meta, t, upper_bound_key) ==
  LET last == SerializeEndKey(t)
      largest_candidate ==
        IF upper_bound_key # nullptr /\ upper_bound_key <= last.user_key
        THEN InternalKey(upper_bound_key, kMaxSequenceNumber,
                         "kTypeRangeDeletion")
        ELSE last
      m1 == IF meta.largest = EmptyKey \/
               InternalKeyLess(meta.largest, largest_candidate)
            THEN [meta EXCEPT !.largest = largest_candidate]
            ELSE meta
  IN [m1 EXCEPT !.smallest_seqno = Min({@, t.seq_}),
                !.largest_seqno = Max({@, t.seq_})]

\* The for loop of AddToBuilder over one stripe's tombstones, from ts[i] on.
RECURSIVE AddStripeToBuilder(_, _, _, _, _, _)
AddStripeToBuilder(ts, i, lower_bound, upper_bound_key, first_added, out) ==
  IF i > Len(ts) THEN out
  ELSE IF StartsAtOrAfter(ts[i], upper_bound_key) THEN out
  ELSE IF EndsAtOrBefore(ts[i], lower_bound)
       THEN AddStripeToBuilder(ts, i + 1, lower_bound, upper_bound_key,
                               first_added, out)
  ELSE LET m1 == IF first_added THEN out.meta
                 ELSE UpdateSmallest(out.meta, ts[i], lower_bound)
           m2 == UpdateLargest(m1, ts[i], upper_bound_key)
       IN AddStripeToBuilder(
            ts, i + 1, lower_bound, upper_bound_key, TRUE,
            [out EXCEPT !.builder = Append(@, Serialize(ts[i])),
                        !.meta = m2])

\* The while loop of AddToBuilder over the stripes in `todo`, oldest first.
RECURSIVE AddStripesToBuilder(_, _, _, _, _, _)
AddStripesToBuilder(r, collapse, todo, lower_bound, upper_bound_key, out) ==
  IF todo = {} THEN out
  ELSE LET u == Min(todo) IN
       AddStripesToBuilder(
         r, collapse, todo \ {u}, lower_bound, upper_bound_key,
         AddStripeToBuilder(StripeTombstones(collapse, r.stripe_map_[u]), 1,
                            lower_bound, upper_bound_key, FALSE, out))

\* RangeDelAggregator::AddToBuilder(builder, lower_bound, upper_bound, meta,
\* range_del_out_stats, bottommost_level): the builder, meta and stats after
\* the call, given those before it.
AddToBuilderBody(r, collapse, lower_bound, upper_bound_key, bottommost_level, out) ==
  IF ~r.allocated THEN out
  ELSE LET dropped ==
             IF bottommost_level
             THEN MapSize(collapse, r.stripe_map_[Min(DOMAIN r.stripe_map_)])
             ELSE 0
       IN AddStripesToBuilder(
            r, collapse, RetainedStripes(r.stripe_map_, bottommost_level),
            lower_bound, upper_bound_key,
            [out EXCEPT !.stats = @ + dropped])

\* ------------------------------------- AddTombstones with file boundaries
\* AddTombstones(input, smallest, largest) is not part of this file; it is
\* modelled from the specification's section on truncation, for boundaries of
\* type RangeDeletion, each given by its user key or null.

\* Mutant: the end key is left as it is.
TruncateTombstone_StartOnly(t, smallest, largest) ==
  RangeTombstone(
    IF smallest # nullptr /\ t.start_key_ < smallest THEN smallest
    ELSE t.start_key_,
    t.end_key_, t.seq_)

\* The start key raised to smallest, the end key lowered to largest.
TruncateTombstone(t, smallest, largest) ==
  RangeTombstone(
    IF smallest # nullptr /\ t.start_key_ < smallest THEN smallest
    ELSE t.start_key_,
    IF largest # nullptr /\ t.end_key_ > largest THEN largest
    ELSE t.end_key_,
    t.seq_)

\* "If truncation makes start >= end, the tombstone is dropped entirely."
DroppedByTruncation(t, truncated) ==
  truncated # t /\ truncated.start_key_ >= truncated.end_key_

\* The loop of AddTombstones with boundaries, from entry i on; `added_` are
\* the tombstones handed to the stripe maps.
RECURSIVE TruncatedLoop(_, _, _, _, _, _, _)
TruncatedLoop(r, collapse, input, i, smallest, largest, added_) ==
  IF i > Len(input)
  THEN [rep_ |-> r, status |-> "OK", count |-> i - 1, added_ |-> added_]
  ELSE IF ~input[i].parsed
  THEN [rep_ |-> r, status |-> "Corruption", count |-> i - 1,
        added_ |-> added_]
  ELSE LET t == TruncateTombstone(input[i].tombstone, smallest, largest)
           u == RouteTombstone(r.stripe_map_, t)
       IN IF DroppedByTruncation(input[i].tombstone, t)
          THEN TruncatedLoop(r, collapse, input, i + 1, smallest, largest,
                             added_)
          ELSE TruncatedLoop(
                 [r EXCEPT !.stripe_map_[u] = MapAdd(collapse, @, t)],
                 collapse, input, i + 1, smallest, largest,
                 added_ \cup {t})

\* AddTombstones(input, smallest, largest), input not null, from source id.
TruncatedBody(r, ub, collapse, input, smallest, largest, id) ==
  IF Len(input) = 0
  THEN [rep_ |-> r, status |-> "OK", count |-> 0, added_ |-> {}]
  ELSE LET w == TruncatedLoop(FirstIter(r, ub, collapse), collapse, input, 1,
                              smallest, largest, {})
       IN IF PinsInput(input, w.status)
          THEN [w EXCEPT !.rep_.pinned_iters_ = @ \cup {id}]
          ELSE w

\* ------------------------------------------ ShouldDeleteRange, GetTombstone
\* Neither method is part of this file.  They are modelled from the
\* specification's sections on should_delete_range and get_tombstone; where
\* the tests of this repository (ShouldDeleteRange, GetTombstone) decide a
\* case, the tests are followed.

\* Mutant: the walk succeeds on reaching an entry at end.user_key.
RangeWalk_EndExclusive(rep, it, end, seq) ==
  LET RECURSIVE W(_)
      W(x) == IF x = END THEN FALSE
              ELSE IF end <= x THEN TRUE
              ELSE IF rep[x] <= seq THEN FALSE
              ELSE W(next(rep, x))
  IN W(it)

\* The forward walk: fail at the first entry with seq_ <= seq met before an
\* entry whose key is greater than end.user_key.
RECURSIVE RangeWalk(_, _, _, _)
RangeWalk(rep, it, end, seq) ==
  IF it = END THEN FALSE
  ELSE IF end < it THEN TRUE
  ELSE IF rep[it] <= seq THEN FALSE
  ELSE RangeWalk(rep, next(rep, it), end, seq)

\* ShouldDeleteRange(begin, end, seq) on a collapsed map.  The test expects
\* true for begin == end inside a newer tombstone, so only begin > end is
\* answered false at once.
CollapsedShouldDeleteRange(rep, begin_key, end_key, seq) ==
  IF begin_key > end_key THEN FALSE
  ELSE LET it == upper_bound(rep, begin_key) IN
       IF it = begin(rep) THEN FALSE
       ELSE RangeWalk(rep, prev(rep, it), end_key, seq)

\* PartialRangeTombstone(start_key, end_key, seq); nullptr for an absent key.
PartialRangeTombstone(start_key, end_key, seq) ==
  [start_key_ |-> start_key, end_key_ |-> end_key, seq_ |-> seq]

\* Mutant: a staircase value equal to the query seq is reported.
CollapsedGetTombstone_NotStrict(rep, user_key, seq) ==
  LET it == upper_bound(rep, user_key)
      e == IF it = END THEN nullptr ELSE it
  IN IF it = begin(rep) THEN PartialRangeTombstone(nullptr, e, 0)
     ELSE LET p == prev(rep, it) IN
          PartialRangeTombstone(p, e, IF rep[p] >= seq THEN rep[p] ELSE 0)

\* GetTombstone(key, seq) on a collapsed map.
CollapsedGetTombstone(rep, user_key, seq) ==
  LET it == upper_bound(rep, user_key)
      e == IF it = END THEN nullptr ELSE it
  IN IF it = begin(rep) THEN PartialRangeTombstone(nullptr, e, 0)
     ELSE LET p == prev(rep, it) IN
          PartialRangeTombstone(p, e, IF rep[p] > seq THEN rep[p] ELSE 0)

\* ------------------------------------------------------------------ state
VARIABLES
  crep,    \* CollapsedRangeDelMap::rep_
  citer,   \* CollapsedRangeDelMap::iter_
  urep,    \* UncollapsedRangeDelMap::rep_
  added,   \* the tombstones passed to AddTombstone so far, in call order
  last_query,  \* the latest recorded ShouldDelete call on the collapsed map
  collapse_deletions_,  \* RangeDelAggregator::collapse_deletions_
  upper_bound_,         \* RangeDelAggregator::upper_bound_
  rep_,                 \* RangeDelAggregator::rep_ (NULL until allocated)
  ctor,        \* the constructor called and its snapshot argument
  ncalls,      \* AddTombstones calls made with an input; call i reads source i
  borrowed,    \* sources of which a tombstone was added to a stripe map
  routed,      \* the tombstones AddTombstones added to stripe maps
  last_add,    \* the last AddTombstones(input) call: what it returned and met
  out          \* the builder, meta and stats of the latest AddToBuilder call

mapvars == <<crep, citer, urep, added, last_query>>
aggvars == <<collapse_deletions_, upper_bound_, rep_, ctor, ncalls, borrowed,
             routed, last_add, out>>
vars == <<mapvars, aggvars>>

NoAdd == [status |-> "none", count |-> 0, had_cursor |-> FALSE,
          was_null |-> FALSE, smallest |-> nullptr, largest |-> nullptr]

\* No recorded ShouldDelete call so far.
NoQuery == [mode |-> "none", user_key |-> 0, sequence |-> 0, ndebug |-> FALSE,
            before |-> END, ret |-> FALSE, asserts |-> TRUE, aborted |-> FALSE]

\* No AddToBuilder call so far.
NoOut == [lower_bound |-> nullptr, upper_bound |-> nullptr,
          bottommost_level |-> FALSE, called |-> FALSE, result |-> FreshOut]

\* ------------------------------------------------ the two maps side by side
\* A fresh collapsed map (its constructor invalidates the cursor) and a fresh
\* uncollapsed map.
MapInit ==
  /\ crep = EmptyRep
  /\ citer = END
  /\ urep = <<>>
  /\ added = <<>>
  /\ last_query = NoQuery
  /\ collapse_deletions_ = TRUE
  /\ upper_bound_ = kMaxSequenceNumber
  /\ rep_ = NULL
  /\ ctor = [form |-> "none", snapshots |-> {}]
  /\ ncalls = 0
  /\ borrowed = {}
  /\ routed = {}
  /\ last_add = NoAdd
  /\ out = NoOut

\* The same tombstone is added to both maps.  The collapsed map is only ever
\* added to with its cursor invalidated (RangeDelAggregator::AddTombstones
\* invalidates every stripe before its first insertion); AddTombstone itself
\* leaves iter_ alone.
MapAddTombstone(t) ==
  /\ Len(added) < MaxAdds
  /\ citer = END
  /\ crep' = CollapsedAddTombstone(crep, t)
  /\ urep' = UncollapsedAddTombstone(urep, t)
  /\ added' = Append(added, t)
  /\ UNCHANGED <<citer, last_query, aggvars>>

\* CollapsedRangeDelMap::InvalidatePosition
MapInvalidatePosition ==
  /\ citer # END
  /\ citer' = END
  /\ UNCHANGED <<crep, urep, added, last_query, aggvars>>

\* CollapsedRangeDelMap::ShouldDelete moves the cursor.
MapShouldDelete(user_key, sequence, mode) ==
  /\ citer' = CollapsedShouldDelete(crep, citer, user_key, sequence, mode).iter
  /\ UNCHANGED <<crep, urep, added, last_query, aggvars>>

MapNext ==
  \/ \E t \in Tombstones : MapAddTombstone(t)
  \/ MapInvalidatePosition
  \/ \E k \in Keys, s \in QuerySeqs, m \in CollapsedModes :
       MapShouldDelete(k, s, m)

MapSpec == MapInit /\ [][MapNext]_vars

\* ------------------------------------------- queries on the collapsed map
\* CollapsedRangeDelMap::ShouldDelete in any mode, the call and what came of
\* it being recorded in last_query.
MapShouldDeleteRecorded(user_key, sequence, mode, ndebug) ==
  \E o \in ShouldDeleteOutcomes(crep, citer, user_key, sequence, mode, ndebug) :
    /\ citer' = o.iter
    /\ last_query' = [mode |-> mode, user_key |-> user_key,
                      sequence |-> sequence, ndebug |-> ndebug,
                      before |-> citer, ret |-> o.ret, asserts |-> o.asserts,
                      aborted |-> o.aborted]
    /\ UNCHANGED <<crep, urep, added, aggvars>>

\* CollapsedRangeDelMap::InvalidatePosition; the record of the latest call is
\* dropped with the cursor.
MapInvalidateRecorded ==
  /\ citer # END \/ last_query # NoQuery
  /\ citer' = END
  /\ last_query' = NoQuery
  /\ UNCHANGED <<crep, urep, added, aggvars>>

\* CollapsedRangeDelMap::AddTombstone on the collapsed map alone, with the
\* cursor invalidated as in MapAddTombstone.  No history of the insertions is
\* kept, so their number needs no bound: the staircases over Keys are finitely
\* many.
MapAddTombstoneOnly(t) ==
  /\ citer = END
  /\ crep' = CollapsedAddTombstone(crep, t)
  /\ UNCHANGED <<citer, urep, added, last_query, aggvars>>

\* Insertions and queries on one collapsed map; an aborted process takes no
\* further step.
QueryNext ==
  /\ ~last_query.aborted
  /\ \/ \E t \in Tombstones : MapAddTombstoneOnly(t)
     \/ MapInvalidateRecorded
     \/ \E k \in Keys, s \in QuerySeqs, m \in AllModes, ndebug \in BOOLEAN :
          MapShouldDeleteRecorded(k, s, m, ndebug)

QuerySpec == MapInit /\ [][QueryNext]_vars

\* ---------------------------------------------------------- the aggregator
\* Either constructor: the snapshot-list form allocates rep_ at once, the
\* single-snapshot form leaves it null until tombstones arrive.
Init ==
  /\ crep = EmptyRep /\ citer = END /\ urep = <<>> /\ added = <<>>
  /\ last_query = NoQuery
  /\ collapse_deletions_ \in BOOLEAN
  /\ \/ \E snapshots \in SUBSET Snapshots :
          /\ ctor = [form |-> "list", snapshots |-> snapshots]
          /\ upper_bound_ = kMaxSequenceNumber
          /\ rep_ = InitRep(snapshots, collapse_deletions_)
     \/ \E snapshot \in Snapshots \cup {kMaxSequenceNumber} :
          /\ ctor = [form |-> "single", snapshots |-> {snapshot}]
          /\ upper_bound_ = snapshot
          /\ rep_ = NULL
  /\ ncalls = 0
  /\ borrowed = {}
  /\ routed = {}
  /\ last_add = NoAdd
  /\ out = NoOut

\* Whether some stripe's cursor is positioned (not at end-of-map).
HasCursor(r) ==
  r.allocated /\ \E u \in DOMAIN r.stripe_map_ : r.stripe_map_[u].iter_ # END

\* AddTombstones(nullptr)
AddTombstonesNull ==
  UNCHANGED vars

\* AddTombstones(input): drains the input iterator into the stripes.
AddTombstones(input) ==
  /\ ncalls < MaxCalls
  /\ Cardinality(routed) + Len(input) <= MaxAggAdds
  /\ LET id == ncalls + 1
         w == AddTombstonesBody(rep_, upper_bound_, collapse_deletions_,
                                input, id)
     IN /\ rep_' = w.rep_
        /\ ncalls' = id
        /\ borrowed' = IF w.count > 0 THEN borrowed \cup {id} ELSE borrowed
        /\ routed' = routed \cup {input[i].tombstone : i \in 1 .. w.count}
        /\ last_add' = [status |-> w.status, count |-> w.count,
                        had_cursor |-> HasCursor(rep_),
                        was_null |-> ~rep_.allocated,
                        smallest |-> nullptr, largest |-> nullptr]
  /\ UNCHANGED <<mapvars, collapse_deletions_, upper_bound_, ctor, out>>

\* ShouldDelete(parsed, mode) on an allocated aggregator.
ShouldDelete(user_key, sequence, mode) ==
  /\ rep_.allocated
  /\ LET q == AggShouldDelete(rep_, collapse_deletions_, user_key, sequence,
                              mode)
     IN rep_' = q.rep_
  /\ UNCHANGED <<mapvars, collapse_deletions_, upper_bound_, ctor, ncalls,
                 borrowed, routed, last_add, out>>

\* InvalidateRangeDelMapPositions()
InvalidateRangeDelMapPositions ==
  /\ rep_' = InvalidatePositions(rep_)
  /\ UNCHANGED <<mapvars, collapse_deletions_, upper_bound_, ctor, ncalls,
                 borrowed, routed, last_add, out>>

Next ==
  \/ AddTombstonesNull
  \/ \E input \in Inputs : AddTombstones(input)
  \/ \E k \in Keys, s \in AggQuerySeqs, m \in ModesOf(collapse_deletions_) :
       ShouldDelete(k, s, m)
  \/ InvalidateRangeDelMapPositions

Spec == Init /\ [][Next]_vars

\* ------------------------------------------- tombstones of one input file
\* AddTombstones(input, smallest, largest): as AddTombstones(input), each
\* tombstone truncated to the file's boundaries first.
AddTombstonesTruncated(input, smallest, largest) ==
  /\ ncalls < MaxCalls
  /\ Cardinality(routed) + Len(input) <= MaxAggAdds
  /\ LET id == ncalls + 1
         w == TruncatedBody(rep_, upper_bound_, collapse_deletions_, input,
                            smallest, largest, id)
     IN /\ rep_' = w.rep_
        /\ ncalls' = id
        /\ borrowed' = IF w.added_ # {} THEN borrowed \cup {id} ELSE borrowed
        /\ routed' = routed \cup w.added_
        /\ last_add' = [status |-> w.status, count |-> w.count,
                        had_cursor |-> HasCursor(rep_),
                        was_null |-> ~rep_.allocated,
                        smallest |-> smallest, largest |-> largest]
  /\ UNCHANGED <<mapvars, collapse_deletions_, upper_bound_, ctor, out>>

\* A source without boundaries (a memtable) is added first, then an input
\* file with its boundaries, smallest <= largest.
TruncNext ==
  \/ ncalls = 0 /\ \E input \in Inputs : AddTombstones(input)
  \/ /\ ncalls = 1
     /\ \E smallest \in Bounds, largest \in Bounds :
          /\ smallest = nullptr \/ largest = nullptr \/ smallest <= largest
          /\ \E input \in Inputs :
               AddTombstonesTruncated(input, smallest, largest)

TruncSpec == Init /\ [][TruncNext]_vars

\* ------------------------------------------------- writing an output file
\* AddToBuilder(builder, lower_bound, upper_bound, meta, stats, bottommost)
\* with a new builder, a new FileMetaData and zeroed stats.
AddToBuilder(lower_bound, upper_bound_key, bottommost_level) ==
  /\ ~out.called
  /\ out' = [lower_bound |-> lower_bound, upper_bound |-> upper_bound_key,
             bottommost_level |-> bottommost_level, called |-> TRUE,
             result |-> AddToBuilderBody(rep_, collapse_deletions_,
                                         lower_bound, upper_bound_key,
                                         bottommost_level, FreshOut)]
  /\ UNCHANGED <<mapvars, collapse_deletions_, upper_bound_, rep_, ctor,
                 ncalls, borrowed, routed, last_add>>

\* A compaction: the inputs' tombstones are added, then an output file is
\* written.  AddToBuilder leaves the aggregator as it is and every call gets
\* a builder and a meta of its own, so one call per behaviour shows them all.
BuilderNext ==
  \/ ~out.called /\ \E input \in Inputs : AddTombstones(input)
  \/ \E lower_bound \in Bounds, upper_bound_key \in Bounds,
        bottommost_level \in BOOLEAN :
       AddToBuilder(lower_bound, upper_bound_key, bottommost_level)

BuilderSpec == Init /\ [][BuilderNext]_vars

\* ---------------------------------------------------- claims on the two maps
Covers(t, k, s) == t.start_key_ <= k /\ k < t.end_key_ /\ s < t.seq_
IsEmptyTombstone(t) == t.start_key_ = t.end_key_
Range(seq) == {seq[i] : i \in 1 .. Len(seq)}

\* A fresh collapsed map after AddTombstone of ts[1], ..., ts[n].
RECURSIVE CollapsedReplayTo(_, _)
CollapsedReplayTo(ts, n) ==
  IF n = 0 THEN EmptyRep
  ELSE CollapsedAddTombstone(CollapsedReplayTo(ts, n - 1), ts[n])
CollapsedReplay(ts) == CollapsedReplayTo(ts, Len(ts))

\* A fresh uncollapsed map after AddTombstone of ts[1], ..., ts[n].
RECURSIVE UncollapsedReplayTo(_, _)
UncollapsedReplayTo(ts, n) ==
  IF n = 0 THEN <<>>
  ELSE UncollapsedAddTombstone(UncollapsedReplayTo(ts, n - 1), ts[n])
UncollapsedReplay(ts) == UncollapsedReplayTo(ts, Len(ts))

\* ts without its empty tombstones, order kept.
RECURSIVE WithoutEmpty(_)
WithoutEmpty(ts) ==
  IF ts = <<>> THEN <<>>
  ELSE IF IsEmptyTombstone(Head(ts)) THEN WithoutEmpty(Tail(ts))
  ELSE <<Head(ts)>> \o WithoutEmpty(Tail(ts))

\* Every tombstone added so far covers at least one key.
NoEmptyAdded == \A i \in 1 .. Len(added) : ~IsEmptyTombstone(added[i])

\* C1: pointwise equivalence.  After the same non-empty tombstones (seqs >= 1,
\* overlaps and equal seqs allowed) were added to both maps, the collapsed map
\* (kBinarySearch) and the uncollapsed map (kFullScan) give the same
\* ShouldDelete verdict for every user key and seq.
C1_PointwiseEquivalence ==
  NoEmptyAdded =>
    \A x \in Keys, s \in QuerySeqs :
      BinarySearchDeleted(crep, x, s) = UncollapsedShouldDelete(urep, x, s)

\* C2: insertion-order invariance.  Every order of insertion of the added
\* (non-empty) tombstones into a fresh collapsed map gives the verdicts of the
\* order actually used, for every user key and seq.
C2_OrderInvariance ==
  NoEmptyAdded =>
    \A p \in Permutations(1 .. Len(added)) :
      LET other == CollapsedReplay([i \in 1 .. Len(added) |-> added[p[i]]]) IN
      \A x \in Keys, s \in QuerySeqs :
        BinarySearchDeleted(other, x, s) = BinarySearchDeleted(crep, x, s)

\* C3: the uncollapsed map reports (k, s) deleted exactly when one of the
\* added tombstones has start_key <= k < end_key and s < seq; the early exit
\* hides no covering tombstone.
C3_UncollapsedExact ==
  \A k \in Keys, s \in QuerySeqs :
    UncollapsedShouldDelete(urep, k, s) <=>
      \E i \in 1 .. Len(added) : Covers(added[i], k, s)

\* C3 witness: a query is answered true although the scan would stop early at
\* a later tombstone, after passing a tombstone that does not cover the key.
C3_Witness ==
  \E k \in Keys, s \in QuerySeqs :
    /\ UncollapsedShouldDelete(urep, k, s)
    /\ Len(urep) = 3
    /\ ~Covers(urep[1], k, s)
    /\ Covers(urep[2], k, s)
    /\ UncollapsedBreak(k, urep[3])

\* C4: empty tombstones contribute no coverage.  Both maps answer every query
\* as the maps built from the same calls with the empty tombstones left out.
C4_EmptyNoCoverage ==
  \A k \in Keys, s \in QuerySeqs :
    /\ BinarySearchDeleted(crep, k, s) =
         BinarySearchDeleted(CollapsedReplay(WithoutEmpty(added)), k, s)
    /\ UncollapsedShouldDelete(urep, k, s) =
         UncollapsedShouldDelete(UncollapsedReplay(WithoutEmpty(added)), k, s)

\* Two non-empty tombstones of one seq that abut or overlap.
Mergeable(a, b) ==
  /\ ~IsEmptyTombstone(a) /\ ~IsEmptyTombstone(b)
  /\ a.seq_ = b.seq_
  /\ a.start_key_ <= b.end_key_ /\ b.start_key_ <= a.end_key_

\* C5: two abutting or overlapping tombstones of one seq, added in either
\* order to a fresh collapsed map, leave the staircase union start -> seq,
\* union end -> 0, and the iterator yields the one tombstone spanning the union.
C5_SameSeqMerged ==
  (Len(added) = 2 /\ Mergeable(added[1], added[2])) =>
    LET lo == Min({added[1].start_key_, added[2].start_key_})
        hi == Max({added[1].end_key_, added[2].end_key_})
    IN /\ DOMAIN crep = {lo, hi}
       /\ crep[lo] = added[1].seq_ /\ crep[hi] = 0
       /\ CollapsedIterate(crep) = <<RangeTombstone(lo, hi, added[1].seq_)>>

\* C6: adding to the collapsed map a (non-empty) tombstone identical to one
\* added before, whatever was added in between, leaves every key -> seq entry
\* of the staircase as it was.
C6_IdenticalAddNoOp ==
  [][\A t \in Range(added) :
       (NoEmptyAdded /\ MapAddTombstone(t)) => crep' = crep]_vars

\* ------------------------------------------------- claims on the aggregator
\* The stripe upper bounds the constructor arguments ask for.
CtorBounds == ctor.snapshots \cup {kMaxSequenceNumber}
\* The least of them that is >= seq.
LeastUpper(seq) == Min({u \in CtorBounds : u >= seq})
\* The tombstones added so far whose seq belongs to stripe u.
RoutedTo(u) == {t \in routed : LeastUpper(t.seq_) = u}

\* C7: stripe routing.  For every seq from 0 to kMaxSequenceNumber,
\* GetRangeDelMap finds the stripe whose upper bound is the least element of
\* snapshots + {kMaxSequenceNumber} that is >= seq; every tombstone added
\* through AddTombstones is in that stripe of its seq and in no other.
C7_StripeRouting ==
  rep_.allocated =>
    /\ \A seq \in 0 .. kMaxSequenceNumber :
         GetRangeDelMap(rep_.stripe_map_, seq) = LeastUpper(seq)
    /\ \A u \in DOMAIN rep_.stripe_map_ :
         LET m == rep_.stripe_map_[u] IN
         IF collapse_deletions_
         THEN /\ \A k \in DOMAIN m.rep : m.rep[k] # 0 => LeastUpper(m.rep[k]) = u
              /\ RoutedTo(u) # {} => DOMAIN m.rep # {}
         ELSE Range(m.rep) = RoutedTo(u)

\* C7 witness: several stripes; a tombstone whose seq equals a snapshot and one
\* above every snapshot have been added.
C7_Witness ==
  /\ rep_.allocated
  /\ Cardinality(DOMAIN rep_.stripe_map_) >= 2
  /\ \E t \in routed : t.seq_ \in ctor.snapshots /\ ~IsEmptyTombstone(t)
  /\ \E t \in routed : LeastUpper(t.seq_) = kMaxSequenceNumber

\* C8: stripe containment.  ShouldDelete answers true for a key of seq s only
\* because of a tombstone of the stripe of s with a larger seq (one covering
\* the key, on uncollapsed maps); every entry of a stripe's staircase comes
\* from tombstones routed to that stripe.
C8_StripeContainment ==
  rep_.allocated =>
    /\ \A k \in Keys, s \in AggQuerySeqs, m \in ModesOf(collapse_deletions_) :
         AggShouldDelete(rep_, collapse_deletions_, k, s, m).ret =>
           \E t \in RoutedTo(LeastUpper(s)) :
             /\ s < t.seq_
             /\ ~collapse_deletions_ => Covers(t, k, s)
    /\ collapse_deletions_ =>
         \A u \in DOMAIN rep_.stripe_map_ :
           LET rep == rep_.stripe_map_[u].rep IN
           \A k \in DOMAIN rep :
             /\ \E t \in RoutedTo(u) : k \in {t.start_key_, t.end_key_}
             /\ rep[k] = 0 \/ \E t \in RoutedTo(u) : rep[k] = t.seq_

\* C8 witness: a tombstone of a newer stripe covers a user key with a larger
\* seq than a key version that belongs to an older stripe, and ShouldDelete
\* answers false for that version, while it answers true for a version that a
\* tombstone of its own stripe covers.
C8_Witness ==
  /\ rep_.allocated
  /\ \E t \in routed, t2 \in routed, k \in Keys, s \in AggQuerySeqs,
        s2 \in AggQuerySeqs, m \in ModesOf(collapse_deletions_) :
       /\ Covers(t, k, s) /\ LeastUpper(s) # LeastUpper(t.seq_)
       /\ ~AggShouldDelete(rep_, collapse_deletions_, k, s, m).ret
       /\ Covers(t2, k, s2) /\ LeastUpper(s2) = LeastUpper(t2.seq_)
       /\ AggShouldDelete(rep_, collapse_deletions_, k, s2, m).ret

\* C9: cursor invalidation.  An AddTombstones call that adds a tombstone
\* leaves the cursor of every collapsed stripe at end-of-map, so that the next
\* ShouldDelete in a traversal mode answers as kBinarySearch does on the
\* updated staircase.
C9_CursorInvalidation ==
  [][(collapse_deletions_ /\ ncalls' = ncalls + 1 /\ last_add'.count >= 1) =>
       /\ \A u \in DOMAIN rep_'.stripe_map_ : rep_'.stripe_map_[u].iter_ = END
       /\ \A k \in Keys, s \in AggQuerySeqs :
            \A m \in {"kForwardTraversal", "kBackwardTraversal"} :
              AggShouldDelete(rep_', collapse_deletions_, k, s, m).ret =
                AggShouldDelete(rep_', collapse_deletions_, k, s,
                                "kBinarySearch").ret]_vars

\* C9 witness: AddTombstones has added a tombstone to a collapsed aggregator
\* one of whose cursors an earlier query had positioned.
C9_Witness ==
  /\ collapse_deletions_
  /\ last_add.status = "OK" /\ last_add.count >= 1 /\ last_add.had_cursor
  /\ ~HasCursor(rep_)

\* C10: source pinning.  Whatever AddTombstones returned, every source of
\* which a tombstone was added to a stripe map is pinned by the aggregator.
C10_SourcePinned ==
  borrowed \subseteq (IF rep_.allocated THEN rep_.pinned_iters_ ELSE {})

\* C11: an aggregator to which no tombstone was added reports IsEmpty() true,
\* whichever constructor built it and collapsed or not; a collapsed stripe
\* whose staircase has no entries reports size 0.
C11_FreshIsEmpty ==
  routed = {} =>
    /\ AggIsEmpty(rep_, collapse_deletions_)
    /\ (rep_.allocated /\ collapse_deletions_) =>
         \A u \in DOMAIN rep_.stripe_map_ :
           DOMAIN rep_.stripe_map_[u].rep = {} =>
             MapSize(collapse_deletions_, rep_.stripe_map_[u]) = 0

\* Whether a stripe's map holds a tombstone: its iterator yields one.
StripeHolds(collapse, m) ==
  IF collapse THEN CollapsedIterate(m.rep) # <<>> ELSE Len(m.rep) > 0

\* C12: ShouldAddTombstones(bottommost) is true exactly when some stripe,
\* the oldest one left out when bottommost is set, holds a tombstone; it is
\* false when no tombstone was ever added.
C12_ShouldAddExact ==
  \A bottommost \in BOOLEAN :
    ShouldAddTombstones(rep_, collapse_deletions_, bottommost) <=>
      /\ rep_.allocated
      /\ \E u \in RetainedStripes(rep_.stripe_map_, bottommost) :
           StripeHolds(collapse_deletions_, rep_.stripe_map_[u])

\* C13: lazy allocation.  A single-snapshot aggregator stays unallocated, with
\* nothing pinned, IsEmpty true, ShouldAddTombstones and IsRangeOverlapped
\* false and AddToBuilder writing nothing, until an AddTombstones call whose
\* source yields an entry; a source that yields nothing returns OK and changes
\* nothing; once allocated the stripes are exactly {snapshot, kMaxSequenceNumber}.
C13_LazyAllocation ==
  [][ctor.form = "single" =>
       /\ ~rep_.allocated =>
            /\ borrowed = {} /\ routed = {}
            /\ AggIsEmpty(rep_, collapse_deletions_)
            /\ \A b \in BOOLEAN :
                 ~ShouldAddTombstones(rep_, collapse_deletions_, b)
            /\ \A a \in Keys, b \in Keys : ~AggIsRangeOverlapped(rep_, a, b)
            /\ \A lo \in Bounds, hi \in Bounds, b \in BOOLEAN :
                 AddToBuilderBody(rep_, collapse_deletions_, lo, hi, b,
                                  FreshOut) = FreshOut
       /\ (~rep_.allocated /\ ncalls' = ncalls + 1) =>
            IF last_add'.status = "OK" /\ last_add'.count = 0
            THEN rep_' = rep_
            ELSE rep_'.allocated
       /\ (~rep_.allocated /\ rep_'.allocated) => ncalls' = ncalls + 1
       /\ rep_'.allocated =>
            /\ DOMAIN rep_'.stripe_map_ = {upper_bound_, kMaxSequenceNumber}
            /\ upper_bound_ \in ctor.snapshots]_vars

\* C13 witness: a single-snapshot aggregator that a first AddTombstones call
\* left unallocated and a second call, adding a tombstone, allocated with two
\* stripes.
C13_Witness ==
  /\ ctor.form = "single"
  /\ ncalls = 2 /\ last_add.was_null /\ last_add.count >= 1
  /\ rep_.allocated /\ Cardinality(DOMAIN rep_.stripe_map_) = 2

\* C14: on an uncollapsed aggregator IsRangeOverlapped(a, b) is true exactly
\* when some added tombstone is non-empty, ends after a and starts at or before
\* b; it is false when no tombstone was added.
C14_RangeOverlapExact ==
  ~collapse_deletions_ =>
    \A a \in Keys, b \in Keys :
      AggIsRangeOverlapped(rep_, a, b) <=>
        \E t \in routed :
          /\ t.start_key_ < t.end_key_
          /\ a < t.end_key_
          /\ t.start_key_ <= b

\* C14 witness: with several stripes, a range that ends exactly where a
\* tombstone starts overlaps, the range starting at that tombstone's end does
\* not, and neither does a range around an empty tombstone.
C14_Witness ==
  /\ ~collapse_deletions_ /\ rep_.allocated
  /\ Cardinality(DOMAIN rep_.stripe_map_) >= 2
  /\ \E t \in routed, e \in routed :
       /\ t.start_key_ < t.end_key_ /\ IsEmptyTombstone(e)
       /\ \E a \in Keys : a < t.start_key_ /\
                          AggIsRangeOverlapped(rep_, a, t.start_key_)
       /\ ~AggIsRangeOverlapped(rep_, t.end_key_, t.end_key_)
       /\ ~AggIsRangeOverlapped(rep_, e.start_key_, e.start_key_)

\* The first index i of ts, a sequence of tombstones, with target < end key
\* (the tombstone contains target or begins after it), or Len(ts) + 1.
RECURSIVE FirstAtOrAfter(_, _, _)
FirstAtOrAfter(ts, i, target) ==
  IF i > Len(ts) \/ target < ts[i].end_key_ THEN i
  ELSE FirstAtOrAfter(ts, i + 1, target)

\* C15: Seek(target) on the collapsed map's iterator stops at the first
\* tombstone, in iteration order, that contains target or begins after it, and
\* is invalid when there is none; Next() from there yields the remaining
\* tombstones in order.
C15_SeekPosition ==
  \A target \in Keys :
    LET all == CollapsedIterate(crep)
        i == FirstAtOrAfter(all, 1, target)
        it == IteratorSeek(crep, target)
    IN /\ IteratorValid(crep, it) <=> i <= Len(all)
       /\ IterateFrom(crep, it) = SubSeq(all, i, Len(all))

\* C15 witness: the staircase holds two tombstones with a gap between them; a
\* Seek into the gap lands on the tombstone after it, a Seek at a key of the
\* second tombstone lands on it, and a Seek at the last end key leaves the
\* iterator invalid.
C15_Witness ==
  LET all == CollapsedIterate(crep) IN
  /\ Len(all) = 2
  /\ \E target \in Keys :
       /\ all[1].end_key_ <= target /\ target < all[2].start_key_
       /\ IteratorSeek(crep, target) = all[2].start_key_
  /\ \E target \in Keys :
       /\ all[2].start_key_ <= target /\ target < all[2].end_key_
       /\ IteratorSeek(crep, target) = all[2].start_key_
  /\ \E target \in Keys :
       /\ all[2].end_key_ <= target
       /\ ~IteratorValid(crep, IteratorSeek(crep, target))

\* ------------------------------------------------- claims on AddToBuilder
\* Whether a tombstone lies in the file's range: it starts before upper and
\* ends after lower, for the bounds that are given.
InFileRange(t, lower, upper) ==
  /\ upper = nullptr \/ t.start_key_ < upper
  /\ lower = nullptr \/ lower < t.end_key_

\* The tombstones of ts inside the file's range, order kept.
RECURSIVE Kept(_, _, _)
Kept(ts, lower, upper) ==
  IF ts = <<>> THEN <<>>
  ELSE (IF InFileRange(Head(ts), lower, upper) THEN <<Head(ts)>> ELSE <<>>)
       \o Kept(Tail(ts), lower, upper)

\* The stripes of rep_ a call on the given level keeps, and what their
\* iterators yield inside the file's range, oldest stripe first.
KeptStripes(bottommost) ==
  {u \in DOMAIN rep_.stripe_map_ :
     ~bottommost \/ \E v \in DOMAIN rep_.stripe_map_ : v < u}
RECURSIVE KeptOf(_, _, _)
KeptOf(todo, lower, upper) ==
  IF todo = {} THEN <<>>
  ELSE LET u == Min(todo) IN
       Kept(StripeTombstones(collapse_deletions_, rep_.stripe_map_[u]),
            lower, upper) \o KeptOf(todo \ {u}, lower, upper)

\* The tombstones the builder received, decoded from its entries.
Written ==
  [i \in 1 .. Len(out.result.builder) |->
     RangeTombstone(out.result.builder[i].key.user_key,
                    out.result.builder[i].value,
                    out.result.builder[i].key.sequence)]

\* C16: AddToBuilder writes exactly the tombstones that the iterators of the
\* retained stripes yield and that start before upper and end after lower:
\* the early break loses none of them and none outside the range is written.
C16_BuilderExact ==
  (out.called /\ rep_.allocated) =>
    Written = KeptOf(KeptStripes(out.bottommost_level),
                     out.lower_bound, out.upper_bound)

\* C16 witness: with both bounds given, one stripe's iterator yields a
\* tombstone ending at or before lower (skipped), then one inside the range
\* (written), then one starting at or after upper (where the loop breaks).
C16_Witness ==
  /\ out.called /\ rep_.allocated
  /\ out.lower_bound # nullptr /\ out.upper_bound # nullptr
  /\ \E u \in KeptStripes(out.bottommost_level) :
       LET ts == StripeTombstones(collapse_deletions_, rep_.stripe_map_[u])
       IN /\ Len(ts) = 3
          /\ ts[1].end_key_ <= out.lower_bound
          /\ InFileRange(ts[2], out.lower_bound, out.upper_bound)
          /\ out.upper_bound <= ts[3].start_key_
          /\ Written = <<ts[2]>>

\* C17: key-space partitioning.  After AddToBuilder on a meta with empty
\* smallest and largest, if anything was written: with a lower bound,
\* meta.smallest has a user key >= lower and is (lower, 0, RangeDeletion) when
\* the first tombstone written starts at or before lower; with an upper bound,
\* meta.largest has a user key <= upper and is (upper, kMaxSequenceNumber,
\* RangeDeletion) when some tombstone written ends at or after upper.
C17_MetaPartitioned ==
  (out.called /\ Len(out.result.builder) > 0) =>
    LET meta == out.result.meta
        lower == out.lower_bound
        upper == out.upper_bound
    IN /\ lower # nullptr =>
            /\ meta.smallest.user_key >= lower
            /\ Written[1].start_key_ <= lower =>
                 meta.smallest = InternalKey(lower, 0, "kTypeRangeDeletion")
       /\ upper # nullptr =>
            /\ meta.largest # EmptyKey /\ meta.largest.user_key <= upper
            /\ (\E i \in 1 .. Len(Written) : Written[i].end_key_ >= upper) =>
                 meta.largest = InternalKey(upper, kMaxSequenceNumber,
                                            "kTypeRangeDeletion")

\* C17 witness: with both bounds given, tombstones of two stripes were
\* written; the first starts before lower and another ends after upper.
C17_Witness ==
  /\ out.called /\ Len(out.result.builder) = 2
  /\ out.lower_bound # nullptr /\ out.upper_bound # nullptr
  /\ Written[1].start_key_ < out.lower_bound
  /\ Written[2].end_key_ > out.upper_bound
  /\ LeastUpper(Written[1].seq_) # LeastUpper(Written[2].seq_)
  /\ out.result.meta.smallest.sequence = 0
  /\ out.result.meta.largest.sequence = kMaxSequenceNumber

\* ------------------------------------------------ claims on truncation
\* Whether the aggregator reports (k, s) deleted, by a search from scratch.
Deleted(r, k, s) ==
  /\ r.allocated
  /\ AggShouldDelete(r, collapse_deletions_, k, s,
                     IF collapse_deletions_ THEN "kBinarySearch"
                     ELSE "kFullScan").ret

\* Whether user key k lies outside a file's boundaries.
OutsideFile(k, smallest, largest) ==
  \/ smallest # nullptr /\ k < smallest
  \/ largest # nullptr /\ k >= largest

\* C18: truncation to file boundaries.  Every tombstone AddTombstones(src,
\* smallest, largest) adds starts at or after smallest.user_key and ends at or
\* before largest.user_key, and the call makes no user key below
\* smallest.user_key or at or above largest.user_key deleted that was not
\* deleted before, collapsed or not.
C18_Truncation ==
  [][ncalls' = ncalls + 1 =>
       LET smallest == last_add'.smallest
           largest == last_add'.largest
       IN /\ \A t \in routed' \ routed :
               /\ smallest # nullptr => t.start_key_ >= smallest
               /\ largest # nullptr => t.end_key_ <= largest
          /\ \A k \in Keys, s \in AggQuerySeqs :
               (OutsideFile(k, smallest, largest) /\ Deleted(rep_', k, s)) =>
                 Deleted(rep_, k, s)]_vars

\* ---------------------------- claims on ShouldDeleteRange and GetTombstone
\* The staircase entries from the one in force at begin to the last one at or
\* before end all have a seq above s, and an entry beyond end closes them.
ContiguousCover(rep, begin_key, end_key, s) ==
  /\ \E x \in DOMAIN rep : x <= begin_key
  /\ \E x \in DOMAIN rep : x > end_key
  /\ LET first == Max({x \in DOMAIN rep : x <= begin_key})
     IN \A x \in DOMAIN rep : (first <= x /\ x <= end_key) => rep[x] > s

MaxSeqOver(ts, x) ==
  Max({0} \cup {ts[i].seq_ : i \in {j \in 1 .. Len(ts) :
                   ts[j].start_key_ <= x /\ x < ts[j].end_key_}})

\* C21: staircase correctness.  For adjacent entries (k, s), (k2, s2) and
\* every user key x with k <= x < k2, s is the largest seq of an added
\* tombstone containing x (0 when none does); a key before the first entry or
\* at or after the last entry is contained in no added tombstone.  (The keys
\* of a std::map are strictly ascending.)
C21_StaircaseCorrect ==
  \A x \in Keys :
    LET below == {k \in DOMAIN crep : k <= x}
        above == {k \in DOMAIN crep : k > x}
    IN IF below = {} \/ above = {}
       THEN MaxSeqOver(added, x) = 0
       ELSE crep[Max(below)] = MaxSeqOver(added, x)

\* C22: sentinel termination.  After every AddTombstone a non-empty staircase
\* has at least two entries and its last entry has seq 0, so no key at or
\* after the last entry is reported deleted.
C22_SentinelTerminated ==
  crep # EmptyRep =>
    /\ Cardinality(DOMAIN crep) >= 2
    /\ crep[Max(DOMAIN crep)] = 0
    /\ \A k \in Keys, s \in QuerySeqs :
         k >= Max(DOMAIN crep) => ~BinarySearchDeleted(crep, k, s)

\* --------------------------------------------- claims on the query modes
\* Where the cursor belongs for a user key: the greatest entry at or before
\* it, or the first entry when the key precedes every entry.
CursorAt(rep, user_key) ==
  IF \E x \in DOMAIN rep : x <= user_key
  THEN Max({x \in DOMAIN rep : x <= user_key})
  ELSE begin(rep)

\* The step is a recorded ShouldDelete call in the given mode, made with a
\* valid cursor that the call before it left in place for its own key.
TraversalStep(mode) ==
  /\ last_query' # last_query
  /\ last_query'.mode = mode
  /\ citer # END
  /\ last_query.mode \in CollapsedModes
  /\ citer = CursorAt(crep, last_query.user_key)

\* The call of the step answered as kBinarySearch does, left the cursor where
\* it belongs for its key, and its closing assertions held.
AgreesWithBinarySearch ==
  /\ last_query'.ret =
       BinarySearchDeleted(crep, last_query'.user_key, last_query'.sequence)
  /\ citer' = CursorAt(crep, last_query'.user_key)
  /\ last_query'.asserts /\ ~last_query'.aborted

\* C23: a kForwardTraversal call whose key is not below that of the call
\* before it, and a kBackwardTraversal call whose key is not above it,
\* answers as kBinarySearch does on the same staircase and leaves the cursor
\* at the greatest entry at or before its key (the first entry when the key
\* precedes it), so both closing assertions hold; a call that positions the
\* cursor by binary search leaves it there as well.
C23_TraversalAgrees ==
  [][/\ (TraversalStep("kForwardTraversal") /\
           last_query.user_key <= last_query'.user_key) =>
          AgreesWithBinarySearch
     /\ (TraversalStep("kBackwardTraversal") /\
           last_query'.user_key <= last_query.user_key) =>
          AgreesWithBinarySearch
     /\ (last_query' # last_query /\ last_query'.mode \in CollapsedModes /\
           citer = END) =>
          AgreesWithBinarySearch]_vars

\* C23 witness: a forward call has moved the cursor over an entry from where
\* the call before it had left it, and answered true.
C23_Witness ==
  /\ last_query.mode = "kForwardTraversal"
  /\ last_query.before # END
  /\ last_query.before < citer
  /\ next(crep, last_query.before) < citer
  /\ citer = CursorAt(crep, last_query.user_key)
  /\ last_query.ret /\ last_query.asserts

\* C27: a ShouldDelete call in kFullScan mode fails; it returns no verdict and
\* leaves the cursor alone.
C27_FullScanFails ==
  [][(last_query' # last_query /\ last_query'.mode = "kFullScan") =>
       /\ last_query'.aborted
       /\ citer' = citer]_vars

\* ------------------------------------------ claims on the collapsed iterator
\* The tombstones between adjacent entries at or after key k whose seq is not
\* 0, in ascending order of start key.
RECURSIVE NonZeroSteps(_, _)
NonZeroSteps(rep, k) ==
  IF k = END \/ next(rep, k) = END THEN <<>>
  ELSE (IF rep[k] # 0 THEN <<RangeTombstone(k, next(rep, k), rep[k])>>
        ELSE <<>>) \o NonZeroSteps(rep, next(rep, k))

\* C24: a new iterator followed by repeated Next() yields, in ascending order
\* of start key, exactly one tombstone (k_i, k_i+1, s_i) for every pair of
\* adjacent entries with s_i # 0 and nothing else: no tombstone of seq 0, not
\* even first, and never the last entry.
C24_IterationExact ==
  LET all == CollapsedIterate(crep) IN
  /\ all = NonZeroSteps(crep, begin(crep))
  /\ \A i \in 1 .. Len(all) :
       all[i].seq_ # 0 /\ all[i].start_key_ # Max(DOMAIN crep)

\* C24 witness: the iterator yields two tombstones and skips an entry of seq 0
\* between them.
C24_Witness ==
  LET all == CollapsedIterate(crep) IN
  /\ Len(all) = 2
  /\ all[1].end_key_ < all[2].start_key_
  /\ crep[all[1].end_key_] = 0

\* C25: iterator round-trip.  Inserting the tombstones the iterator of the
\* collapsed map yields, in the yielded order, into a fresh collapsed map
\* gives a staircase with the same key -> seq entries.
C25_RoundTrip ==
  CollapsedReplay(CollapsedIterate(crep)) = crep

\* --------------------------------------------- claims on a single insertion
\* The largest seq s such that x is deleted for every smaller seq: the seq of
\* the entry in force at x, 0 before the first entry.
EffectiveSeq(rep, x) ==
  IF \E k \in DOMAIN rep : k <= x
  THEN rep[Max({k \in DOMAIN rep : k <= x})]
  ELSE 0

\* C28: coverage is monotone under insertion.  Whatever ShouldDelete reported
\* deleted before an AddTombstone it reports deleted afterwards.
C28_CoverageMonotone ==
  [][added' # added =>
       \A x \in Keys, s \in QuerySeqs :
         BinarySearchDeleted(crep, x, s) => BinarySearchDeleted(crep', x, s)]_vars

\* C29: frame of an insertion.  AddTombstone(t) leaves the effective seq of
\* every user key x < t.start_key_ or x >= t.end_key_ as it was.
C29_InsertionFrame ==
  [][added' # added =>
       LET t == added'[Len(added')] IN
       \A x \in Keys :
         (x < t.start_key_ \/ x >= t.end_key_) =>
           EffectiveSeq(crep', x) = EffectiveSeq(crep, x)]_vars

\* ------------------------------------------- more claims on AddToBuilder
\* The size of a stripe as the claim has it: the tombstones of an uncollapsed
\* stripe, the intervals between the entries of a collapsed one, 0 when the
\* stripe holds nothing.
StripeSize(collapse, m) ==
  IF collapse
  THEN (IF m.rep = EmptyRep THEN 0 ELSE Cardinality(DOMAIN m.rep) - 1)
  ELSE Len(m.rep)

\* C26: bottommost accounting.  AddToBuilder with bottommost set raises
\* num_range_del_drop_obsolete and num_record_drop_obsolete (one number in the
\* model, both get the same increment) by the size of the oldest stripe, 0
\* when that stripe holds no tombstone, and writes no tombstone of the oldest
\* stripe.
C26_BottommostAccounting ==
  (out.called /\ out.bottommost_level /\ rep_.allocated) =>
    LET oldest == Min(DOMAIN rep_.stripe_map_) IN
    /\ out.result.stats = StripeSize(collapse_deletions_, rep_.stripe_map_[oldest])
    /\ ~StripeHolds(collapse_deletions_, rep_.stripe_map_[oldest]) =>
         out.result.stats = 0
    /\ \A i \in 1 .. Len(Written) :
         RouteTombstone(rep_.stripe_map_, Written[i]) # oldest

\* C30: after AddToBuilder with no lower bound on a meta whose smallest and
\* largest were empty, meta.smallest is <= the internal start key of every
\* tombstone written (user key ascending, then seq descending) and
\* meta.largest is >= the end key of every tombstone written; a tombstone
\* ending at or after a given upper bound is held against the key (upper,
\* kMaxSequenceNumber, RangeDeletion) that replaces its end key.
C30_MetaBounds ==
  (out.called /\ out.lower_bound = nullptr /\ Len(Written) > 0) =>
    \A i \in 1 .. Len(Written) :
      /\ ~InternalKeyLess(Serialize(Written[i]).key, out.result.meta.smallest)
      /\ \/ ~InternalKeyLess(out.result.meta.largest,
                             SerializeEndKey(Written[i]))
         \/ /\ out.upper_bound # nullptr
            /\ out.upper_bound <= Written[i].end_key_
            /\ out.result.meta.largest =
                 InternalKey(out.upper_bound, kMaxSequenceNumber,
                             "kTypeRangeDeletion")

====
